---- MODULE Spec2Model ----
(***************************************************************************)
(* A model of TinyLog (src/TinyLog/tinylog.hpp).                           *)
(*                                                                         *)
(* Part 1, the Logger: caller threads running Logger::log, the async       *)
(* worker started by Logger::start_async, the MPMCQueue with its mutex and *)
(* condition variable, Logger::dispatch under the Logger mutex, and        *)
(* Logger::~Logger.  Every sink of this part records the messages written  *)
(* to it, in order.                                                        *)
(*                                                                         *)
(* Part 2, the FileSink: one rotating file sink over a directory, with     *)
(* FileSink::write as one step (the whole call runs under the sink mutex). *)
(***************************************************************************)
EXTENDS Integers, Sequences, FiniteSets, TLC

\* ---------------------------------------------------------------- bounds
NProducers == 2
MaxCalls == 2
MaxLevelCalls == 1

\* ------------------------------------------------------ level::value
trace == 0
debug == 1
info == 2
warn == 3
error == 4
critical == 5
off == 6

Levels == trace..off

\* The level values the callers of the concurrency scenarios pass, and the
\* thresholds they set.
CallLevels == {info}
SetLevels == {trace, warn}

\* TINYLOG_LEVEL, the initial runtime threshold.
TINYLOG_LEVEL == trace

\* ------------------------------------------------------------- threads
Producers == {<<"p", i>> : i \in 1..NProducers}
Worker == <<"w", 0>>
Main == <<"main", 0>>
\* A second thread that may call start_async.
Starter == <<"aux", 0>>
Free == <<"free", 0>>
Dispatchers == Producers \cup {Worker}
Threads == Dispatchers \cup {Main, Starter}

\* The registered sinks: sink 1 a ConsoleSink, sink 2 a FileSink (which has a
\* sink-local mutex).
SinkIds == {1, 2}
IsFileSink(s) == s = 2

NoMsg == [src |-> Free, seq |-> 0, lv |-> 0]

VARIABLES
  level_,    \* Logger::level_
  running_,  \* Logger::running_
  q_,        \* MPMCQueue::q_
  closed_,   \* MPMCQueue::closed_
  qmtx,      \* holder of MPMCQueue::mtx_
  mtx_,      \* holder of Logger::mtx_
  sinks_,    \* Logger::sinks_, the sink ids in registration order
  smtx,      \* holder of each FileSink::mtx_
  out,       \* what each sink has been written, in order
  pc,        \* each thread's position
  msg,       \* the LogMessage m each dispatching thread holds
  idx,       \* each dispatching thread's position in the fan-out loop
  hist,      \* per producer, the route each of its log() calls took
  cur,       \* per producer, level and threshold read by its latest log() call
  nworkers   \* worker threads created so far

VARIABLES
  path_files, \* the directory: suffix k (0 the live path_) -> file, if any
  max_bytes_, \* FileSink::max_bytes_
  max_files_, \* FileSink::max_files_
  out_open,   \* FileSink::out_.is_open()
  replaces,   \* whether fs::rename replaces an existing target on this platform
  can_open,   \* whether opening path_ succeeds at the moment
  nwrites,    \* FileSink::write calls so far
  rotations,  \* rotations so far
  pre,        \* the directory as the latest rotation found it
  last        \* the latest write: live size when it began, and around its append

fvars == <<path_files, max_bytes_, max_files_, out_open, replaces, can_open,
           nwrites, rotations, pre, last>>

lvars == <<level_, running_, q_, closed_, qmtx, mtx_, sinks_, smtx, out, pc,
           msg, idx, hist, cur, nworkers>>

\* The log path configuration; a string is a sequence of characters.
VARIABLES
  log_dir_,  \* Logger::log_dir_
  log_base_, \* Logger::log_base_
  log_ext_,  \* Logger::log_ext_
  ext_arg,   \* the argument of the latest set_log_extension call, if any
  ret        \* what default_log_path returned since the latest setter call

pvars == <<log_dir_, log_base_, log_ext_, ext_arg, ret>>

\* One thread's LOG_SCOPE timer and the clock it reads.
VARIABLES
  clock,     \* what high_resolution_clock::now() returns, in microseconds
  inscope,   \* a ScopeTimer object is alive
  start_,    \* ScopeTimer::start_
  scopes     \* per scope exit so far: start_, end and us of ~ScopeTimer

tvars == <<clock, inscope, start_, scopes>>

\* The timestamp mode.
VARIABLES
  utc_,      \* Logger::utc_
  sink_utc   \* per sink, ConsoleSink::utc_ or FileSink::utc_

uvars == <<utc_, sink_utc>>

cvars == <<pvars, tvars, uvars>>

vars == <<lvars, fvars, cvars>>

\* ------------------------------------------------------------ Logger
InitMembers ==
  /\ level_ = TINYLOG_LEVEL
  /\ running_ = FALSE
  /\ q_ = <<>>
  /\ closed_ = FALSE
  /\ qmtx = Free
  /\ mtx_ = Free
  /\ smtx = [s \in SinkIds |-> Free]
  /\ out = [s \in SinkIds |-> <<>>]
  /\ pc = [t \in Threads |->
             IF t \in Producers THEN "idle" ELSE IF t = Worker THEN "none" ELSE "run"]
  /\ msg = [t \in Dispatchers |-> NoMsg]
  /\ idx = [t \in Dispatchers |-> 0]
  /\ hist = [p \in Producers |-> <<>>]
  /\ cur = [p \in Producers |-> [lv |-> trace, thr |-> trace]]
  /\ nworkers = 0

\* The Logger of the delivery scenarios: a console sink and a file sink have
\* been added, in this order.
InitLogger == InitMembers /\ sinks_ = <<1, 2>>

\* The filter with <= for <: a call at the threshold itself is suppressed.
Suppressed_LE(lv, thr) == lv <= thr

\* The filter of Logger::log: the call is suppressed when lv < threshold.
Suppressed(lv, thr) == lv < thr

\* Where teardown stands (for the record hist keeps of each push).
Phase ==
  IF closed_ THEN "closed"
  ELSE IF pc[Main] \in {"run", "sa_set"} THEN "live" ELSE "stopping"

\* log() calls started so far, over all producers.
RECURSIVE SumLen(_, _)
SumLen(f, S) ==
  IF S = {} THEN 0
  ELSE LET x == CHOOSE y \in S : TRUE IN Len(f[x]) + SumLen(f, S \ {x})

NCalls == SumLen(hist, Producers)

SetTag(p, tag) == [hist EXCEPT ![p][Len(hist[p])] = tag]

\* Logger::set_level: one atomic store, from any thread, while the Logger lives.
SetLevel(lv) ==
  /\ pc[Main] \notin {"done", "aborted"}
  /\ level_ # lv
  /\ level_' = lv
  /\ UNCHANGED <<running_, q_, closed_, qmtx, mtx_, sinks_, smtx, out, pc, msg,
                 idx, hist, cur>>
  /\ UNCHANGED <<nworkers, fvars, cvars>>

\* Logger::log, first statement: load level_, return when lv is below it;
\* otherwise build the LogMessage.
Log_Filter(p, lv) ==
  /\ pc[p] = "idle"
  /\ pc[Main] # "done"
  /\ NCalls < MaxCalls
  /\ cur' = [cur EXCEPT ![p] = [lv |-> lv, thr |-> level_]]
  /\ IF Suppressed(lv, level_)
       THEN /\ hist' = [hist EXCEPT ![p] = Append(@, "filtered")]
            /\ UNCHANGED <<pc, msg>>
       ELSE /\ hist' = [hist EXCEPT ![p] = Append(@, "pending")]
            /\ msg' = [msg EXCEPT ![p] = [src |-> p, seq |-> Len(hist[p]) + 1, lv |-> lv]]
            /\ pc' = [pc EXCEPT ![p] = "check"]
  /\ UNCHANGED <<level_, running_, q_, closed_, qmtx, mtx_, sinks_, smtx, out,
                 idx>>
  /\ UNCHANGED <<nworkers, fvars, cvars>>

\* log() that queues its message whatever running_ is.
Log_AlwaysPush(p) ==
  /\ pc[p] = "check"
  /\ pc' = [pc EXCEPT ![p] = "push_lock"]
  /\ hist' = SetTag(p, "async")
  /\ UNCHANGED <<level_, running_, q_, closed_, qmtx, mtx_, sinks_, smtx, out,
                 msg, idx, cur>>
  /\ UNCHANGED <<nworkers, fvars, cvars>>

\* Logger::log: if (running_) { q_.push(std::move(m)); return; } dispatch(m);
Log_CheckRunning(p) ==
  /\ pc[p] = "check"
  /\ IF running_
       THEN /\ pc' = [pc EXCEPT ![p] = "push_lock"]
            /\ hist' = SetTag(p, "async")
       ELSE /\ pc' = [pc EXCEPT ![p] = "disp_lock"]
            /\ hist' = SetTag(p, "sync")
  /\ UNCHANGED <<level_, running_, q_, closed_, qmtx, mtx_, sinks_, smtx, out,
                 msg, idx, cur>>
  /\ UNCHANGED <<nworkers, fvars, cvars>>

\* MPMCQueue::push: lock_guard on the queue mutex.
Push_Lock(p) ==
  /\ pc[p] = "push_lock"
  /\ qmtx = Free
  /\ qmtx' = p
  /\ pc' = [pc EXCEPT ![p] = "push"]
  /\ UNCHANGED <<level_, running_, q_, closed_, mtx_, sinks_, smtx, out, msg,
                 idx, hist, cur>>
  /\ UNCHANGED <<nworkers, fvars, cvars>>

\* log() without the return after the push: the caller goes on to dispatch.
Push_NoReturn(p) ==
  /\ pc[p] = "push"
  /\ q_' = Append(q_, msg[p])
  /\ qmtx' = Free
  /\ hist' = SetTag(p, Phase)
  /\ pc' = [pc EXCEPT ![p] = "disp_lock"]
  /\ UNCHANGED <<level_, running_, closed_, mtx_, sinks_, smtx, out, msg, idx,
                 cur>>
  /\ UNCHANGED <<nworkers, fvars, cvars>>

\* push on a queue of capacity one: the caller waits while it is full.
Push_Bounded(p) ==
  /\ pc[p] = "push"
  /\ Len(q_) < 1
  /\ q_' = Append(q_, msg[p])
  /\ qmtx' = Free
  /\ hist' = SetTag(p, Phase)
  /\ msg' = [msg EXCEPT ![p] = NoMsg]
  /\ pc' = [pc EXCEPT ![p] = "idle"]
  /\ UNCHANGED <<level_, running_, closed_, mtx_, sinks_, smtx, out, idx,
                 cur>>
  /\ UNCHANGED <<nworkers, fvars, cvars>>

\* MPMCQueue::push: q_.push, notify_one, unlock; then log() returns.
Push_Do(p) ==
  /\ pc[p] = "push"
  /\ q_' = Append(q_, msg[p])
  /\ qmtx' = Free
  /\ hist' = SetTag(p, Phase)
  /\ msg' = [msg EXCEPT ![p] = NoMsg]
  /\ pc' = [pc EXCEPT ![p] = "idle"]
  /\ UNCHANGED <<level_, running_, closed_, mtx_, sinks_, smtx, out, idx,
                 cur>>
  /\ UNCHANGED <<nworkers, fvars, cvars>>

\* dispatch without its lock_guard: the fan-out starts whoever holds the mutex.
Dispatch_NoLock(t) ==
  /\ pc[t] = "disp_lock"
  /\ mtx_' = t
  /\ idx' = [idx EXCEPT ![t] = 1]
  /\ pc' = [pc EXCEPT ![t] = "fanout"]
  /\ UNCHANGED <<level_, running_, q_, closed_, qmtx, sinks_, smtx, out, msg,
                 hist, cur>>
  /\ UNCHANGED <<nworkers, fvars, cvars>>

\* Logger::dispatch: lock_guard on the Logger mutex.
Dispatch_Lock(t) ==
  /\ pc[t] = "disp_lock"
  /\ mtx_ = Free
  /\ mtx_' = t
  /\ idx' = [idx EXCEPT ![t] = 1]
  /\ pc' = [pc EXCEPT ![t] = "fanout"]
  /\ UNCHANGED <<level_, running_, q_, closed_, qmtx, sinks_, smtx, out, msg,
                 hist, cur>>
  /\ UNCHANGED <<nworkers, fvars, cvars>>

\* ConsoleSink::write of the next sink of the fan-out (no sink mutex).
Console_Write(t) ==
  /\ pc[t] = "fanout"
  /\ idx[t] <= Len(sinks_)
  /\ ~IsFileSink(sinks_[idx[t]])
  /\ out' = [out EXCEPT ![sinks_[idx[t]]] = Append(@, msg[t])]
  /\ idx' = [idx EXCEPT ![t] = @ + 1]
  /\ UNCHANGED <<level_, running_, q_, closed_, qmtx, mtx_, sinks_, smtx, pc,
                 msg, hist, cur>>
  /\ UNCHANGED <<nworkers, fvars, cvars>>

\* FileSink::write of the next sink: lock_guard on the sink mutex.
File_Lock(t) ==
  /\ pc[t] = "fanout"
  /\ idx[t] <= Len(sinks_)
  /\ IsFileSink(sinks_[idx[t]])
  /\ smtx[sinks_[idx[t]]] = Free
  /\ smtx' = [smtx EXCEPT ![sinks_[idx[t]]] = t]
  /\ pc' = [pc EXCEPT ![t] = "file_write"]
  /\ UNCHANGED <<level_, running_, q_, closed_, qmtx, mtx_, sinks_, out, msg,
                 idx, hist, cur>>
  /\ UNCHANGED <<nworkers, fvars, cvars>>

File_Write_Recheck(t) ==
  /\ pc[t] = "file_write"
  /\ out' = [out EXCEPT ![sinks_[idx[t]]] =
               IF msg[t].lv < level_ THEN @ ELSE Append(@, msg[t])]
  /\ smtx' = [smtx EXCEPT ![sinks_[idx[t]]] = Free]
  /\ idx' = [idx EXCEPT ![t] = @ + 1]
  /\ pc' = [pc EXCEPT ![t] = "fanout"]
  /\ UNCHANGED <<level_, running_, q_, closed_, qmtx, mtx_, sinks_, msg,
                 hist, cur>>
  /\ UNCHANGED <<nworkers, fvars, cvars>>

\* FileSink::write: the line is appended, the sink mutex released.
File_Write(t) ==
  /\ pc[t] = "file_write"
  /\ out' = [out EXCEPT ![sinks_[idx[t]]] = Append(@, msg[t])]
  /\ smtx' = [smtx EXCEPT ![sinks_[idx[t]]] = Free]
  /\ idx' = [idx EXCEPT ![t] = @ + 1]
  /\ pc' = [pc EXCEPT ![t] = "fanout"]
  /\ UNCHANGED <<level_, running_, q_, closed_, qmtx, mtx_, sinks_, msg,
                 hist, cur>>
  /\ UNCHANGED <<nworkers, fvars, cvars>>

\* Logger::dispatch: the loop is over, the Logger mutex is released; log()
\* returns to its caller, the worker goes back to its loop condition.
Dispatch_Unlock(t) ==
  /\ pc[t] = "fanout"
  /\ idx[t] > Len(sinks_)
  /\ mtx_' = Free
  /\ idx' = [idx EXCEPT ![t] = 0]
  /\ msg' = [msg EXCEPT ![t] = NoMsg]
  /\ pc' = [pc EXCEPT ![t] = IF t = Worker THEN "loop" ELSE "idle"]
  /\ UNCHANGED <<level_, running_, q_, closed_, qmtx, sinks_, smtx, out,
                 hist, cur>>
  /\ UNCHANGED <<nworkers, fvars, cvars>>

\* Logger::start_async, called by thread t: if (running_) return;
start_async_check(t) ==
  /\ pc[t] = "run"
  /\ pc' = [pc EXCEPT ![t] = IF running_ THEN "run" ELSE "sa_set"]
  /\ UNCHANGED <<level_, running_, q_, closed_, qmtx, mtx_, sinks_, smtx, out,
                 msg, idx, hist, cur>>
  /\ UNCHANGED <<nworkers, fvars, cvars>>

\* Logger::start_async, called by thread t: running_ = true;
\* worker_ = std::thread(...).  The new thread is created first; assigning it
\* to a worker_ that is still joinable calls std::terminate.
start_async_spawn(t) ==
  /\ pc[t] = "sa_set"
  /\ running_' = TRUE
  /\ nworkers' = nworkers + 1
  /\ IF pc[Worker] = "none"
       THEN pc' = [pc EXCEPT ![t] = "run", ![Worker] = "loop"]
       ELSE pc' = [x \in Threads |-> "aborted"]
  /\ UNCHANGED <<level_, q_, closed_, qmtx, mtx_, sinks_, smtx, out, msg, idx,
                 hist, cur>>
  /\ UNCHANGED <<fvars, cvars>>

StartAsync_Check == start_async_check(Main)

StartAsync_Spawn == start_async_spawn(Main)

\* The worker's loop condition: while (running_).
Worker_Loop ==
  /\ pc[Worker] = "loop"
  /\ pc' = [pc EXCEPT ![Worker] = IF running_ THEN "pop_lock" ELSE "exited"]
  /\ UNCHANGED <<level_, running_, q_, closed_, qmtx, mtx_, sinks_, smtx, out,
                 msg, idx, hist, cur>>
  /\ UNCHANGED <<nworkers, fvars, cvars>>

\* MPMCQueue::pop: unique_lock on the queue mutex; also the re-acquisition
\* when cv_.wait is woken with its predicate true.
Pop_Lock ==
  /\ \/ pc[Worker] = "pop_lock"
     \/ pc[Worker] = "pop_wait" /\ (closed_ \/ q_ # <<>>)
  /\ qmtx = Free
  /\ qmtx' = Worker
  /\ pc' = [pc EXCEPT ![Worker] = "pop"]
  /\ UNCHANGED <<level_, running_, q_, closed_, mtx_, sinks_, smtx, out, msg,
                 idx, hist, cur>>
  /\ UNCHANGED <<nworkers, fvars, cvars>>

\* pop whose wait keeps the queue mutex.
Pop_Body_HoldLock ==
  /\ pc[Worker] = "pop"
  /\ IF ~(closed_ \/ q_ # <<>>)
       THEN /\ pc' = [pc EXCEPT ![Worker] = "pop_wait"]
            /\ UNCHANGED <<q_, msg, qmtx>>
       ELSE /\ qmtx' = Free
            /\ IF q_ = <<>>
                 THEN /\ pc' = [pc EXCEPT ![Worker] = "exited"]
                      /\ UNCHANGED <<q_, msg>>
                 ELSE /\ msg' = [msg EXCEPT ![Worker] = Head(q_)]
                      /\ q_' = Tail(q_)
                      /\ pc' = [pc EXCEPT ![Worker] = "disp_lock"]
  /\ UNCHANGED <<level_, running_, closed_, mtx_, sinks_, smtx, out, idx,
                 hist, cur>>
  /\ UNCHANGED <<nworkers, fvars, cvars>>

\* MPMCQueue::pop under the lock: wait (releasing the lock) while the queue is
\* open and empty; return false on a closed empty queue; else take the front.
Pop_Body ==
  /\ pc[Worker] = "pop"
  /\ qmtx' = Free
  /\ IF ~(closed_ \/ q_ # <<>>)
       THEN /\ pc' = [pc EXCEPT ![Worker] = "pop_wait"]
            /\ UNCHANGED <<q_, msg>>
       ELSE IF q_ = <<>>
         THEN /\ pc' = [pc EXCEPT ![Worker] = "exited"]
              /\ UNCHANGED <<q_, msg>>
         ELSE /\ msg' = [msg EXCEPT ![Worker] = Head(q_)]
              /\ q_' = Tail(q_)
              /\ pc' = [pc EXCEPT ![Worker] = "disp_lock"]
  /\ UNCHANGED <<level_, running_, closed_, mtx_, sinks_, smtx, out, idx,
                 hist, cur>>
  /\ UNCHANGED <<nworkers, fvars, cvars>>

\* Logger::~Logger: if (running_) { ... }
Dtor_Check ==
  /\ pc[Main] = "run"
  /\ pc' = [pc EXCEPT ![Main] = IF running_ THEN "d_clear" ELSE "done"]
  /\ UNCHANGED <<level_, running_, q_, closed_, qmtx, mtx_, sinks_, smtx, out,
                 msg, idx, hist, cur>>
  /\ UNCHANGED <<nworkers, fvars, cvars>>

\* Logger::~Logger: running_ = false;
Dtor_Clear ==
  /\ pc[Main] = "d_clear"
  /\ running_' = FALSE
  /\ pc' = [pc EXCEPT ![Main] = "d_close_lock"]
  /\ UNCHANGED <<level_, q_, closed_, qmtx, mtx_, sinks_, smtx, out, msg, idx,
                 hist, cur>>
  /\ UNCHANGED <<nworkers, fvars, cvars>>

\* MPMCQueue::close: lock_guard on the queue mutex.
Close_Lock ==
  /\ pc[Main] = "d_close_lock"
  /\ qmtx = Free
  /\ qmtx' = Main
  /\ pc' = [pc EXCEPT ![Main] = "d_close"]
  /\ UNCHANGED <<level_, running_, q_, closed_, mtx_, sinks_, smtx, out, msg,
                 idx, hist, cur>>
  /\ UNCHANGED <<nworkers, fvars, cvars>>

\* MPMCQueue::close: closed_ = true; notify_all; unlock.
Close_NoWake ==
  /\ pc[Main] = "d_close"
  /\ qmtx' = Free
  /\ pc' = [pc EXCEPT ![Main] = "d_join"]
  /\ UNCHANGED <<level_, running_, q_, closed_, mtx_, sinks_, smtx, out, msg,
                 idx, hist, cur>>
  /\ UNCHANGED <<nworkers, fvars, cvars>>

Close_Do ==
  /\ pc[Main] = "d_close"
  /\ closed_' = TRUE
  /\ qmtx' = Free
  /\ pc' = [pc EXCEPT ![Main] = "d_join"]
  /\ UNCHANGED <<level_, running_, q_, mtx_, sinks_, smtx, out, msg, idx,
                 hist, cur>>
  /\ UNCHANGED <<nworkers, fvars, cvars>>

\* Logger::~Logger: worker_.join() returns once the worker thread has ended.
Dtor_Join ==
  /\ pc[Main] = "d_join"
  /\ pc[Worker] = "exited"
  /\ pc' = [pc EXCEPT ![Main] = "done"]
  /\ UNCHANGED <<level_, running_, q_, closed_, qmtx, mtx_, sinks_, smtx, out,
                 msg, idx, hist, cur>>
  /\ UNCHANGED <<nworkers, fvars, cvars>>

\* ---------------------------------------------------------------- FileSink
MaxWrites == 5
MaxLineLen == 2
MaxBytes == 3
MaxFiles == 3

\* Suffix 0 is path_ itself, suffix k >= 1 is path_ + "." + k.
Suffixes == 0..(MaxFiles + 1)
Backups == Suffixes \ {0}

\* A file holds the lines appended to it; a line is <<number of the write
\* that made it, its length in bytes with the terminator>>.
Absent == [ex |-> FALSE, lines |-> <<>>]

RECURSIVE Bytes(_)
Bytes(ls) == IF ls = <<>> THEN 0 ELSE Head(ls)[2] + Bytes(Tail(ls))

\* FileSink::size_now: fs::file_size(path_), 0 when it reports an error.
size_now(f) == IF f[0].ex THEN Bytes(f[0].lines) ELSE 0

\* A stream that failed to open is never opened again.
open_file_never(st) == st

\* FileSink::open_file (with ensure_dir): nothing when out_ is open; else open
\* path_ for appending, which creates it when missing and may fail.
open_file(st) ==
  IF st.open THEN st
  ELSE IF can_open
    THEN [f |-> [st.f EXCEPT ![0] = [ex |-> TRUE, lines |-> @.lines]], open |-> TRUE]
    ELSE st

\* fs::rename(from, to, ec): from takes the place of to; where the platform
\* does not replace an existing target it fails and sets ec.
fs_rename(f, from, to) ==
  IF f[to].ex /\ ~replaces
    THEN [f |-> f, ec |-> TRUE]
    ELSE [f |-> [f EXCEPT ![to] = f[from], ![from] = Absent], ec |-> FALSE]

\* fs::remove(to, ec)
fs_remove(f, to) == [f EXCEPT ![to] = Absent]

\* The body of the rotation loop for one i: from is path_ for i = 1 and
\* path_.(i-1) otherwise, to is path_.i; rename when from exists, and on an
\* error remove to and rename again.
rename_backup(f, i) ==
  LET from == IF i = 1 THEN 0 ELSE i - 1
      to == i
  IN IF ~f[from].ex THEN f
     ELSE LET r == fs_rename(f, from, to)
          IN IF r.ec THEN fs_rename(fs_remove(r.f, to), from, to).f ELSE r.f

\* The loop run upwards, from 1 to i: each backup is moved on by the next step.
RECURSIVE rotate_up(_, _, _)
rotate_up(f, j, i) == IF j <= i THEN rotate_up(rename_backup(f, j), j + 1, i) ELSE f

rotate_loop_up(f, i) == rotate_up(f, 1, i)

\* for (int i = max_files_ - 1; i >= 1; --i) { ... }
RECURSIVE rotate_loop(_, _)
rotate_loop(f, i) == IF i >= 1 THEN rotate_loop(rename_backup(f, i), i - 1) ELSE f

\* The size test with <= for <: a file of exactly max_bytes_ is not rotated.
rotate_needed_gt(f) == max_bytes_ # 0 /\ ~(size_now(f) <= max_bytes_)

\* The size test alone, without the early return for a threshold of 0.
rotate_needed_always(f) == ~(size_now(f) < max_bytes_)

\* The two early returns of rotate_if_needed, negated.
rotate_needed(f) == max_bytes_ # 0 /\ ~(size_now(f) < max_bytes_)

\* FileSink::rotate_if_needed: close, shift the backups, reopen.
rotate_if_needed(st) ==
  IF ~rotate_needed(st.f) THEN st
  ELSE open_file([f |-> rotate_loop(st.f, max_files_ - 1), open |-> FALSE])

\* FileSink::write(m), the whole call (it runs under the sink mutex):
\* rotate_if_needed; open_file when out_ is not open; append the line and
\* flush (nothing is appended through a stream that is not open).
Write(len) ==
  /\ nwrites < MaxWrites
  /\ LET st0 == [f |-> path_files, open |-> out_open]
         st1 == rotate_if_needed(st0)
         st2 == IF ~st1.open THEN open_file(st1) ELSE st1
         line == <<nwrites + 1, len>>
         st3 == IF st2.open THEN [st2 EXCEPT !.f[0].lines = Append(@, line)] ELSE st2
     IN /\ path_files' = st3.f
        /\ out_open' = st3.open
        /\ rotations' = IF rotate_needed(path_files) THEN rotations + 1 ELSE rotations
        /\ pre' = IF rotate_needed(path_files) THEN path_files ELSE pre
        /\ last' = [start |-> size_now(path_files),
                    rotated |-> rotate_needed(path_files),
                    appended |-> st2.open,
                    from |-> size_now(st2.f),
                    to |-> size_now(st3.f),
                    wasopen |-> out_open,
                    could |-> can_open]
  /\ nwrites' = nwrites + 1
  /\ UNCHANGED <<max_bytes_, max_files_, replaces, can_open>>
  /\ UNCHANGED <<lvars, cvars>>

\* The environment: opening path_ starts or stops failing.
Env_Open ==
  /\ can_open' = ~can_open
  /\ UNCHANGED <<path_files, max_bytes_, max_files_, out_open, replaces, nwrites,
                 rotations, pre, last>>
  /\ UNCHANGED <<lvars, cvars>>

NoWrite == [start |-> 0, rotated |-> FALSE, appended |-> FALSE, from |-> 0, to |-> 0,
            wasopen |-> FALSE, could |-> FALSE]

\* After FileSink's constructor (which calls open_file) on an empty directory.
InitFile ==
  /\ max_bytes_ \in 0..MaxBytes
  /\ max_files_ \in 1..MaxFiles
  /\ replaces \in BOOLEAN
  /\ can_open \in BOOLEAN
  /\ out_open = can_open
  /\ path_files = [k \in Suffixes |-> IF k = 0 /\ can_open
                                        THEN [ex |-> TRUE, lines |-> <<>>] ELSE Absent]
  /\ nwrites = 0
  /\ rotations = 0
  /\ pre = [k \in Suffixes |-> Absent]
  /\ last = NoWrite

\* The file sink of the Logger scenarios, not written to in them.
FileIdle ==
  /\ max_bytes_ = 0
  /\ max_files_ = 1
  /\ replaces = TRUE
  /\ can_open = TRUE
  /\ out_open = TRUE
  /\ path_files = [k \in Suffixes |-> IF k = 0 THEN [ex |-> TRUE, lines |-> <<>>] ELSE Absent]
  /\ nwrites = 0
  /\ rotations = 0
  /\ pre = [k \in Suffixes |-> Absent]
  /\ last = NoWrite

\* ------------------------------------------------- log path configuration
MaxStrLen == 2

\* The characters of the arguments: a letter and the separator for directory
\* and base name, a letter and the dot for the extension.
NameChars == {"a", "/"}
ExtChars == {"a", "."}

Strs(chars) == UNION {[1..n -> chars] : n \in 0..MaxStrLen}

\* The member initializers: "logs", "TinyLog", ".tiny".
DefaultDir == <<"l", "o", "g", "s">>
DefaultBase == <<"T", "i", "n", "y", "L", "o", "g">>
DefaultExt == <<".", "t", "i", "n", "y">>

InitConfig ==
  /\ utc_ = FALSE
  /\ sink_utc = [s \in SinkIds |-> FALSE]
  /\ clock = 0
  /\ inscope = FALSE
  /\ start_ = 0
  /\ scopes = <<>>
  /\ log_dir_ = DefaultDir
  /\ log_base_ = DefaultBase
  /\ log_ext_ = DefaultExt
  /\ ext_arg = <<>>
  /\ ret = <<>>

\* The extension stored as given.
sanitized_ext_raw(e) == e

\* Logger::sanitized_ext
sanitized_ext(e) ==
  IF e = <<>> THEN DefaultExt
  ELSE IF Head(e) = "." THEN e
  ELSE <<".">> \o e

\* fs::path operator/ (generic format): an absolute right side replaces the
\* left; a separator is put in only after a left side that has a filename,
\* that is, one that is not empty and does not end in a separator.
path_join(l, r) ==
  IF r # <<>> /\ Head(r) = "/" THEN r
  ELSE IF l # <<>> /\ l[Len(l)] # "/" THEN l \o <<"/">> \o r
  ELSE l \o r

\* Logger::default_log_path
default_log_path == path_join(log_dir_, log_base_ \o log_ext_)

\* Logger::set_log_directory
set_log_directory(d) ==
  /\ log_dir_' = d
  /\ ret' = <<>>
  /\ UNCHANGED <<log_base_, log_ext_, ext_arg>>
  /\ UNCHANGED <<lvars, fvars, tvars, uvars>>

\* Logger::set_log_basename
set_log_basename(b) ==
  /\ log_base_' = b
  /\ ret' = <<>>
  /\ UNCHANGED <<log_dir_, log_ext_, ext_arg>>
  /\ UNCHANGED <<lvars, fvars, tvars, uvars>>

\* Logger::set_log_extension
set_log_extension(e) ==
  /\ log_ext_' = sanitized_ext(e)
  /\ ext_arg' = <<e>>
  /\ ret' = <<>>
  /\ UNCHANGED <<log_dir_, log_base_>>
  /\ UNCHANGED <<lvars, fvars, tvars, uvars>>

\* A call of default_log_path: the returned string is noted (the latest two).
DefaultLogPath ==
  /\ ret' = IF Len(ret) < 2 THEN Append(ret, default_log_path)
                            ELSE <<ret[2], default_log_path>>
  /\ UNCHANGED <<log_dir_, log_base_, log_ext_, ext_arg>>
  /\ UNCHANGED <<lvars, fvars, tvars, uvars>>

\* -------------------------------------------------------- timestamp mode
\* set_utc that also switches the sinks already added.
set_utc_all(v) ==
  /\ utc_' = v
  /\ sink_utc' = [s \in SinkIds |-> IF \E i \in 1..Len(sinks_) : sinks_[i] = s
                                      THEN v ELSE sink_utc[s]]
  /\ UNCHANGED <<lvars, fvars, pvars, tvars>>

\* Logger::set_utc
set_utc(v) ==
  /\ utc_' = v
  /\ UNCHANGED sink_utc
  /\ UNCHANGED <<lvars, fvars, pvars, tvars>>

\* add_sink without its lock_guard: the push_back runs whoever holds the mutex.
add_sink_nolock(s) ==
  /\ \A i \in 1..Len(sinks_) : sinks_[i] # s
  /\ sinks_' = Append(sinks_, s)
  /\ sink_utc' = [sink_utc EXCEPT ![s] = utc_]
  /\ UNCHANGED <<level_, running_, q_, closed_, qmtx, mtx_, smtx, out, pc, msg,
                 idx, hist, cur, nworkers>>
  /\ UNCHANGED <<utc_, fvars, pvars, tvars>>

\* Logger::add_sink of a newly made sink s, whose constructor was given utc_:
\* lock_guard on the Logger mutex, push_back.
add_new_sink(s) ==
  /\ \A i \in 1..Len(sinks_) : sinks_[i] # s
  /\ mtx_ = Free
  /\ sinks_' = Append(sinks_, s)
  /\ sink_utc' = [sink_utc EXCEPT ![s] = utc_]
  /\ UNCHANGED <<level_, running_, q_, closed_, qmtx, mtx_, smtx, out, pc, msg,
                 idx, hist, cur, nworkers>>
  /\ UNCHANGED <<utc_, fvars, pvars, tvars>>

\* Logger::add_console_sink
add_console_sink == add_new_sink(1)

\* Logger::add_file_sink
add_file_sink == add_new_sink(2)

\* ------------------------------------------------------------ ScopeTimer
MaxClock == 2

\* duration_cast<microseconds>(end - start_).count()
elapsed_us(start, end) == end - start

\* Time passes.
Clock_Advance ==
  /\ \E c \in 0..MaxClock : c > clock /\ clock' = c
  /\ UNCHANGED <<inscope, start_, scopes>>
  /\ UNCHANGED <<lvars, fvars, pvars, uvars>>

\* high_resolution_clock need not be steady: where it is the system clock, the
\* clock can be set back.
Clock_SetBack ==
  /\ \E c \in 0..MaxClock : c < clock /\ clock' = c
  /\ UNCHANGED <<inscope, start_, scopes>>
  /\ UNCHANGED <<lvars, fvars, pvars, uvars>>

\* LOG_SCOPE(name): ScopeTimer's constructor takes the start instant.
Scope_Enter ==
  /\ ~inscope
  /\ pc[<<"p", 1>>] = "idle"
  /\ Len(scopes) = Len(hist[<<"p", 1>>])
  /\ Len(scopes) < MaxCalls
  /\ inscope' = TRUE
  /\ start_' = clock
  /\ UNCHANGED <<clock, scopes>>
  /\ UNCHANGED <<lvars, fvars, pvars, uvars>>

\* ~ScopeTimer: end = now(); us = the elapsed microseconds.
Scope_Exit ==
  /\ inscope
  /\ inscope' = FALSE
  /\ scopes' = Append(scopes, [start |-> start_, end |-> clock,
                               us |-> elapsed_us(start_, clock)])
  /\ UNCHANGED <<clock, start_>>
  /\ UNCHANGED <<lvars, fvars, pvars, uvars>>

\* ~ScopeTimer: log(lv_, file_, line_, func_, name_, " took ", us, "us"), with
\* lv_ = level::debug from LOG_SCOPE; the text of the thread's k-th call
\* carries scopes[k].us.
Scope_Log ==
  /\ Len(scopes) > Len(hist[<<"p", 1>>])
  /\ Log_Filter(<<"p", 1>>, debug)

\* ------------------------------------------------------------- scenarios
Init == InitLogger /\ FileIdle /\ InitConfig

Next ==
  \/ \E lv \in SetLevels : SetLevel(lv)
  \/ \E p \in Producers, lv \in CallLevels : Log_Filter(p, lv)
  \/ \E p \in Producers : Log_CheckRunning(p)
  \/ \E p \in Producers : Push_Lock(p)
  \/ \E p \in Producers : Push_Do(p)
  \/ \E t \in Dispatchers : Dispatch_Lock(t)
  \/ \E t \in Dispatchers : Console_Write(t)
  \/ \E t \in Dispatchers : File_Lock(t)
  \/ \E t \in Dispatchers : File_Write(t)
  \/ \E t \in Dispatchers : Dispatch_Unlock(t)
  \/ StartAsync_Check
  \/ StartAsync_Spawn
  \/ Worker_Loop
  \/ Pop_Lock
  \/ Pop_Body
  \/ Dtor_Check
  \/ Dtor_Clear
  \/ Close_Lock
  \/ Close_Do
  \/ Dtor_Join

Spec == Init /\ [][Next]_vars

\* The steps of one thread, for fair scheduling: every thread that can take a
\* step eventually takes one.  A mutex is only ever held over a bounded number
\* of steps, so weak fairness per thread is enough.
ProducerStep(p) ==
  \/ \E lv \in CallLevels : Log_Filter(p, lv)
  \/ Log_CheckRunning(p)
  \/ Push_Lock(p)
  \/ Push_Do(p)
  \/ Dispatch_Lock(p)
  \/ Console_Write(p)
  \/ File_Lock(p)
  \/ File_Write(p)
  \/ Dispatch_Unlock(p)

WorkerStep ==
  \/ Worker_Loop
  \/ Pop_Lock
  \/ Pop_Body
  \/ Dispatch_Lock(Worker)
  \/ Console_Write(Worker)
  \/ File_Lock(Worker)
  \/ File_Write(Worker)
  \/ Dispatch_Unlock(Worker)

TeardownStep ==
  \/ Dtor_Clear
  \/ Close_Lock
  \/ Close_Do
  \/ Dtor_Join

Fairness ==
  /\ \A p \in Producers : WF_vars(ProducerStep(p))
  /\ WF_vars(WorkerStep)
  /\ WF_vars(TeardownStep)

SpecFair == Spec /\ Fairness

\* The level scenario: one caller thread, every level value as the call's
\* level and as the threshold, in synchronous and asynchronous delivery.
Caller == <<"p", 1>>
LevelThreads == {Caller, Worker}

NextLevels ==
  \/ \E lv \in Levels : SetLevel(lv)
  \/ \E lv \in Levels : NCalls < MaxLevelCalls /\ Log_Filter(Caller, lv)
  \/ Log_CheckRunning(Caller)
  \/ Push_Lock(Caller)
  \/ Push_Do(Caller)
  \/ \E t \in LevelThreads : Dispatch_Lock(t)
  \/ \E t \in LevelThreads : Console_Write(t)
  \/ \E t \in LevelThreads : File_Lock(t)
  \/ \E t \in LevelThreads : File_Write(t)
  \/ \E t \in LevelThreads : Dispatch_Unlock(t)
  \/ StartAsync_Check
  \/ StartAsync_Spawn
  \/ Worker_Loop
  \/ Pop_Lock
  \/ Pop_Body
  \/ Dtor_Check
  \/ Dtor_Clear
  \/ Close_Lock
  \/ Close_Do
  \/ Dtor_Join

SpecLevels == Init /\ [][NextLevels]_vars

\* The start scenario: start_async is called from two threads.
NextStart ==
  \/ Next
  \/ start_async_check(Starter)
  \/ start_async_spawn(Starter)

SpecStart == Init /\ [][NextStart]_vars

\* The file sink scenario: one FileSink, any rotation policy, written to by
\* its callers one write at a time.
InitF == InitLogger /\ InitFile /\ InitConfig

NextFile ==
  \/ \E len \in 1..MaxLineLen : Write(len)
  \/ Env_Open

SpecFile == InitF /\ [][NextFile]_vars

\* The path scenario: the three setters and default_log_path in any order.
NextPath ==
  \/ \E d \in Strs(NameChars) : set_log_directory(d)
  \/ \E b \in Strs(NameChars) : set_log_basename(b)
  \/ \E e \in Strs(ExtChars) : set_log_extension(e)
  \/ DefaultLogPath

SpecPath == Init /\ [][NextPath]_vars

\* The scope scenario: one thread enters and leaves scopes that hold a
\* LOG_SCOPE timer, in synchronous mode, while the threshold and the clock
\* change.
NextScope ==
  \/ \E lv \in SetLevels : SetLevel(lv)
  \/ Clock_Advance
  \/ Clock_SetBack
  \/ Scope_Enter
  \/ Scope_Exit
  \/ Scope_Log
  \/ Log_CheckRunning(Caller)
  \/ Dispatch_Lock(Caller)
  \/ Console_Write(Caller)
  \/ File_Lock(Caller)
  \/ File_Write(Caller)
  \/ Dispatch_Unlock(Caller)

SpecScope == Init /\ [][NextScope]_vars

\* The configuration scenario: a Logger without sinks; one thread sets the
\* timestamp mode and the threshold and adds the sinks, another one logs.
InitUtc == InitMembers /\ sinks_ = <<>> /\ FileIdle /\ InitConfig

NextUtc ==
  \/ \E v \in BOOLEAN : set_utc(v)
  \/ add_console_sink
  \/ add_file_sink
  \/ \E lv \in SetLevels : SetLevel(lv)
  \/ \E lv \in CallLevels : Log_Filter(Caller, lv)
  \/ Log_CheckRunning(Caller)
  \/ Dispatch_Lock(Caller)
  \/ Console_Write(Caller)
  \/ File_Lock(Caller)
  \/ File_Write(Caller)
  \/ Dispatch_Unlock(Caller)

SpecUtc == InitUtc /\ [][NextUtc]_vars

\* The sink scenario: a Logger without sinks; sinks are added while one thread
\* logs, synchronously and through the worker, up to teardown.
NextSinks ==
  \/ add_console_sink
  \/ add_file_sink
  \/ \E lv \in CallLevels : Log_Filter(Caller, lv)
  \/ Log_CheckRunning(Caller)
  \/ Push_Lock(Caller)
  \/ Push_Do(Caller)
  \/ \E t \in LevelThreads : Dispatch_Lock(t)
  \/ \E t \in LevelThreads : Console_Write(t)
  \/ \E t \in LevelThreads : File_Lock(t)
  \/ \E t \in LevelThreads : File_Write(t)
  \/ \E t \in LevelThreads : Dispatch_Unlock(t)
  \/ StartAsync_Check
  \/ StartAsync_Spawn
  \/ Worker_Loop
  \/ Pop_Lock
  \/ Pop_Body
  \/ Dtor_Check
  \/ Dtor_Clear
  \/ Close_Lock
  \/ Close_Do
  \/ Dtor_Join

SpecSinks == InitUtc /\ [][NextSinks]_vars

\* -------------------------------------------------------------- properties
Has(seq, p, k) == \E i \in 1..Len(seq) : seq[i].src = p /\ seq[i].seq = k
CountIn(seq, p, k) == Cardinality({i \in 1..Len(seq) : seq[i].src = p /\ seq[i].seq = k})
Registered == {sinks_[i] : i \in 1..Len(sinks_)}
Nowhere(p, k) ==
  /\ \A s \in SinkIds : ~Has(out[s], p, k)
  /\ ~Has(q_, p, k)
  /\ \A t \in Dispatchers : ~(msg[t].src = p /\ msg[t].seq = k)
Quiet == \A p \in Producers : pc[p] = "idle"

\* C1: once teardown has returned, every message pushed onto the async queue
\* before the queue was closed has been written to every registered sink.
C1_DrainOnTeardown ==
  pc[Main] = "done" =>
    \A p \in Producers : \A k \in 1..Len(hist[p]) :
      hist[p][k] \in {"live", "stopping"} => \A s \in Registered : Has(out[s], p, k)

\* C2: in async mode no message is lost or duplicated: once every caller has
\* returned and the worker has been stopped and joined, each message that was
\* pushed while async delivery was active and before teardown was requested is
\* in every registered sink exactly once.
C2_ExactlyOnce ==
  (pc[Main] = "done" /\ Quiet) =>
    \A p \in Producers : \A k \in 1..Len(hist[p]) :
      hist[p][k] = "live" => \A s \in Registered : CountIn(out[s], p, k) = 1

\* C3: every sink is written the messages of one producer thread in the order
\* that thread logged them.
C3_ProducerOrder ==
  \A s \in SinkIds : \A i, j \in 1..Len(out[s]) :
    (i < j /\ out[s][i].src = out[s][j].src) => out[s][i].seq < out[s][j].seq

\* C4: all sinks observe the dispatched messages in one and the same order: no
\* sink is written A before B while another is written B before A.
C4_SameOrder ==
  \A s, t \in SinkIds :
    \A i, j \in 1..Len(out[s]) : \A a, b \in 1..Len(out[t]) :
      (out[s][i] = out[t][a] /\ out[s][j] = out[t][b] /\ i < j) => a < b

\* C4's case: both sinks hold the messages of two concurrent callers.
C4_Witness ==
  /\ Len(out[1]) >= 2 /\ Len(out[2]) >= 2
  /\ out[1][1].src # out[1][2].src
  /\ out[2][1].src # out[2][2].src

\* C5: a log() call at a level below the threshold it reads leaves no trace (no
\* message in a sink, in the queue or in a thread's hands); a call at the
\* threshold or above builds its message, which a synchronous call has written
\* exactly once to every registered sink when it returns and an asynchronous
\* call has handed to the queue, from where the worker takes it to the sinks.
C5_LevelFilter ==
  \A p \in Producers : Len(hist[p]) > 0 =>
    LET k == Len(hist[p])
        tag == hist[p][k]
        c == cur[p]
    IN IF c.lv < c.thr
         THEN tag = "filtered" /\ pc[p] = "idle" /\ Nowhere(p, k)
         ELSE /\ tag # "filtered"
              /\ pc[p] # "idle" => msg[p] = [src |-> p, seq |-> k, lv |-> c.lv]
              /\ (tag = "sync" /\ pc[p] = "idle") =>
                   \A s \in Registered : CountIn(out[s], p, k) = 1
              /\ (tag \in {"live", "stopping", "closed"}) =>
                   \/ Has(q_, p, k)
                   \/ msg[Worker].src = p /\ msg[Worker].seq = k
                   \/ \A s \in Registered : CountIn(out[s], p, k) = 1

\* C5's case: the threshold was raised to warn and a call at warn itself has
\* returned with its message in both sinks.
C5_Witness ==
  /\ cur[Caller] = [lv |-> warn, thr |-> warn]
  /\ pc[Caller] = "idle"
  /\ hist[Caller] = <<"sync">>
  /\ \A s \in Registered : Has(out[s], Caller, 1)

\* C6 as claimed, for a live file that is not empty and a sink that keeps
\* backups: an append never takes the live file from a size below the threshold
\* to the threshold or over.
C6_NoStraddle ==
  (max_bytes_ > 0 /\ max_files_ >= 2 /\ last.appended /\ last.from > 0) =>
    ~(last.from < max_bytes_ /\ last.to >= max_bytes_)

\* C6 as amended: with a threshold T > 0 a write rotates first exactly when the
\* live file is already at T or over when the write begins; with max_files >= 2
\* an append therefore never starts on a live file of size T or more, and the
\* live file never exceeds T by a whole line.
C6_RotateBeforeWrite ==
  (max_bytes_ > 0 /\ nwrites > 0) =>
    /\ last.rotated <=> last.start >= max_bytes_
    /\ (max_files_ >= 2 /\ last.appended) => last.from < max_bytes_
    /\ max_files_ >= 2 => size_now(path_files) < max_bytes_ + MaxLineLen

\* C6's case: a write found the live file at the threshold, rotated, and
\* appended to the fresh file.
C6_Witness ==
  /\ max_bytes_ > 0 /\ max_files_ >= 2
  /\ last.rotated /\ last.appended
  /\ last.start >= max_bytes_ /\ last.from = 0

NumBackups == Cardinality({k \in Backups : path_files[k].ex})

\* C7: with N = max_files (taken at 2 or more, where a rotation renames
\* files), after N+1 or more rotations exactly N backup files exist beside the
\* live file.
C7_BackupCount ==
  (max_bytes_ > 0 /\ max_files_ >= 2 /\ rotations >= max_files_ + 1) =>
    NumBackups = max_files_

LineSet(file) == {file.lines[i] : i \in 1..Len(file.lines)}

\* C8: after a rotation, for every max_files, path.1 holds exactly the lines
\* the live file held before it and the live file holds none of them.
C8_RotationSplits ==
  rotations > 0 =>
    /\ path_files[1] = pre[0]
    /\ LineSet(path_files[0]) \cap LineSet(pre[0]) = {}

AllBefore(older, newer) ==
  \A x \in LineSet(older) : \A y \in LineSet(newer) : x[1] < y[1]

C10_ProducerOffSinks ==
  /\ \A p \in Producers :
       (mtx_ = p \/ \E s \in SinkIds : smtx[s] = p \/ pc[p] \in {"disp_lock", "fanout", "file_write"})
         => hist[p][Len(hist[p])] = "sync"
  /\ \A p \in Producers : qmtx = p => hist[p][Len(hist[p])] = "async"
  /\ \A t \in Threads : qmtx = t => (mtx_ # t /\ \A s \in SinkIds : smtx[s] # t)
  /\ qmtx = Worker => pc[Worker] = "pop"

\* C10's case: a producer is inside push, holding the queue mutex, while the
\* worker is in the middle of a file sink write.
C10_Witness ==
  \E p \in Producers :
    /\ pc[p] = "push" /\ qmtx = p
    /\ pc[Worker] = "file_write" /\ mtx_ = Worker

\* C11: at every moment at most one background worker thread has been created,
\* also when start_async is called from several threads at once.
C11_OneWorker == nworkers <= 1

\* C12: under fair scheduling a teardown that found async delivery active
\* completes: the close wakes a worker waiting on the empty queue, the worker
\* ends, and the join returns; teardown never returns with the worker running.
C12_TeardownCompletes ==
  /\ [](pc[Main] = "done" /\ nworkers > 0 => pc[Worker] = "exited")
  /\ (pc[Main] = "d_clear") ~> (pc[Main] = "done")

\* The worker is blocked on the empty queue when the close has been made.
C12_Witness ==
  /\ pc[Main] = "d_join"
  /\ pc[Worker] = "pop_wait"
  /\ closed_
  /\ q_ = <<>>

\* C13: set_level acts only on the log() calls that read the threshold after
\* it.  Whatever the threshold is now, a suppressed call has left no trace; a
\* synchronous call that passed and returned is in every registered sink once;
\* a message handed to the queue is still queued, or in the worker's hands
\* being dispatched, or in every registered sink once.
InDispatch == {"disp_lock", "fanout", "file_write"}

C13_NotRetroactive ==
  \A p \in Producers : \A k \in 1..Len(hist[p]) :
    LET tag == hist[p][k]
        returned == k < Len(hist[p]) \/ pc[p] = "idle"
    IN /\ tag = "filtered" => Nowhere(p, k)
       /\ (tag = "sync" /\ returned) =>
            \A s \in Registered : CountIn(out[s], p, k) = 1
       /\ tag \in {"live", "stopping", "closed"} =>
            \/ Has(q_, p, k)
            \/ /\ msg[Worker].src = p /\ msg[Worker].seq = k
               /\ pc[Worker] \in InDispatch
            \/ \A s \in Registered : CountIn(out[s], p, k) = 1

\* C13's case: the threshold stands at warn while the worker is in the middle
\* of writing an info message taken from the queue (console written, file sink
\* locked), and another call at info has been suppressed.
C13_Witness ==
  /\ level_ = warn
  /\ msg[Worker].lv = info
  /\ pc[Worker] = "file_write"
  /\ Has(out[1], msg[Worker].src, msg[Worker].seq)
  /\ \E p \in Producers : hist[p] = <<"filtered">> /\ p # msg[Worker].src

\* C14: a log() call that read the threshold off leaves no trace in any sink,
\* in the queue or in a thread's hands, whatever level it was made at.
C14_OffSilences ==
  \A p \in Producers : (Len(hist[p]) > 0 /\ cur[p].thr = off) =>
    /\ hist[p][Len(hist[p])] = "filtered"
    /\ Nowhere(p, Len(hist[p]))

Written(n) == \E k \in Suffixes : \E i \in 1..Len(path_files[k].lines) :
  path_files[k].lines[i][1] = n

\* C15: a write appends its line exactly when the stream is open after the
\* rotation step or path_ can be opened during the call; otherwise the call
\* returns with the line in no file and the stream still closed, and the next
\* write opens path_ again: a write on a closed stream appends as soon as path_
\* can be opened.
C15_OpenFailure ==
  nwrites > 0 =>
    /\ last.appended <=> ((last.wasopen /\ ~last.rotated) \/ last.could)
    /\ (~last.wasopen /\ last.could) => last.appended
    /\ ~last.appended => (~out_open /\ ~Written(nwrites) /\ last.to = last.from)
    /\ last.appended =>
         /\ out_open
         /\ path_files[0].lines[Len(path_files[0].lines)][1] = nwrites

\* C15's case: the previous write was dropped, this one found the stream
\* closed, opened path_ and appended.
C15_Witness ==
  /\ nwrites >= 2
  /\ ~Written(nwrites - 1)
  /\ ~last.wasopen
  /\ last.appended

Pushed == {"live", "stopping", "closed"}

\* C16 as claimed, for any capacity below the number of messages the producers
\* log: the queue never holds that many messages.
C16_Bounded == Len(q_) < MaxCalls

\* C16, amended: the queue has no capacity.  A caller holding the queue mutex
\* in push can always complete the push; the queue holds each pushed message
\* once until the worker takes it, and a message is out of the queue only in
\* the worker's hands or in the sinks.
C16_NoCapacity ==
  /\ \A p \in Producers : pc[p] = "push" => ENABLED Push_Do(p)
  /\ \A i \in 1..Len(q_) : hist[q_[i].src][q_[i].seq] \in Pushed
  /\ \A p \in Producers : \A k \in 1..Len(hist[p]) :
       hist[p][k] \in Pushed =>
         IF Has(q_, p, k)
           THEN /\ CountIn(q_, p, k) = 1
                /\ \A s \in SinkIds : ~Has(out[s], p, k)
           ELSE \/ msg[Worker].src = p /\ msg[Worker].seq = k
                \/ \A s \in Registered : CountIn(out[s], p, k) = 1

\* C16's case: every message the producers may log is waiting in the queue
\* while the worker has taken none.
C16_Witness ==
  /\ Len(q_) = MaxCalls
  /\ pc[Worker] \in {"loop", "pop_lock", "pop"}
  /\ msg[Worker] = NoMsg

\* C17 as claimed: default_log_path returns <dir>/<base><ext>.
C17_DirSlashFile ==
  \A i \in 1..Len(ret) : ret[i] = log_dir_ \o <<"/">> \o log_base_ \o log_ext_

\* C17, amended: the stored extension is never empty and starts with '.' (the
\* default for an empty argument, the argument itself when it starts with '.',
\* the argument after a '.' otherwise); default_log_path returns the same
\* string on every call between two setter calls, namely <base><ext> alone
\* when <base> starts with a separator, <dir><base><ext> when <dir> is empty
\* or ends in a separator, and <dir>/<base><ext> otherwise.
C17_PathConfig ==
  LET file == log_base_ \o log_ext_
  IN /\ log_ext_ # <<>> /\ Head(log_ext_) = "."
     /\ ext_arg # <<>> =>
          LET e == ext_arg[1]
          IN IF e = <<>> THEN log_ext_ = DefaultExt
             ELSE IF e[1] = "." THEN log_ext_ = e
             ELSE log_ext_ = <<".">> \o e
     /\ \A i \in 1..Len(ret) :
          ret[i] = IF log_base_ # <<>> /\ log_base_[1] = "/" THEN file
                   ELSE IF log_dir_ = <<>> \/ log_dir_[Len(log_dir_)] = "/"
                     THEN log_dir_ \o file
                   ELSE log_dir_ \o <<"/">> \o file
     /\ Len(ret) = 2 => ret[1] = ret[2]

\* C17's case: base "a" and extension argument "a" give "<dir>/a.a", returned
\* by two calls in a row.
C17_Witness ==
  /\ log_dir_ = <<"a", "a">>
  /\ log_base_ = <<"a">>
  /\ ext_arg = << <<"a">> >>
  /\ ret = << <<"a", "a", "/", "a", ".", "a">>, <<"a", "a", "/", "a", ".", "a">> >>

\* C18: every scope exit whose log call has passed the level filter and
\* returned has put exactly one message, at level debug, into every sink, and
\* the N of its text "<label> took <N>us" is not negative.
C18_ScopeMessage ==
  \A k \in 1..Len(hist[Caller]) :
    (hist[Caller][k] = "sync" /\ (k < Len(hist[Caller]) \/ pc[Caller] = "idle")) =>
      /\ \A s \in Registered : CountIn(out[s], Caller, k) = 1
      /\ \A s \in Registered : \A i \in 1..Len(out[s]) : out[s][i].lv = debug
      /\ scopes[k].us >= 0

\* C19: a file sink whose threshold is 0 never rotates: no rotation has run,
\* no backup file exists, and a write only ever extends the live file (every
\* line written stays where it was appended) and never closes the stream.
C19_NoRotation ==
  /\ [](max_bytes_ = 0 =>
          /\ rotations = 0 /\ ~last.rotated
          /\ \A k \in Backups : ~path_files[k].ex)
  /\ [][max_bytes_ = 0 =>
          /\ Len(path_files'[0].lines) >= Len(path_files[0].lines)
          /\ SubSeq(path_files'[0].lines, 1, Len(path_files[0].lines))
               = path_files[0].lines
          /\ out_open => out_open']_vars

\* C19's case: with threshold 0 the live file has grown past every threshold
\* another sink could have.
C19_Witness ==
  /\ max_bytes_ = 0
  /\ size_now(path_files) > MaxBytes
  /\ Len(path_files[0].lines) >= 3

\* C20: every step leaves the UTC flag of each registered sink as it is; a
\* sink that a step registers has the flag that was ambient at that step; and
\* a step that changes the ambient flag (set_utc) leaves the sink list, the
\* sinks' flags and the level threshold unchanged.
C20_SetUtcFrame ==
  [][/\ \A s \in Registered : sink_utc'[s] = sink_utc[s]
     /\ \A i \in 1..Len(sinks_') :
          (\A j \in 1..Len(sinks_) : sinks_[j] # sinks_'[i]) =>
            sink_utc'[sinks_'[i]] = utc_
     /\ utc_' # utc_ =>
          sinks_' = sinks_ /\ level_' = level_ /\ sink_utc' = sink_utc]_vars

\* C20's case: the console sink was added in local-time mode, the file sink
\* after set_utc(true), the mode then switched back, and both keep their own
\* flag while a message is written through them.
C20_Witness ==
  /\ sinks_ = <<1, 2>>
  /\ ~sink_utc[1] /\ sink_utc[2]
  /\ ~utc_
  /\ out[1] # <<>> /\ out[2] # <<>>

InFanout(t) == pc[t] \in {"fanout", "file_write"}

\* C21: a thread in the fan-out has written its message to exactly the sinks
\* before its position in the list, so sinks are written in registration
\* order; the list changes only by an append at its end, and never while a
\* thread is in the fan-out; and the step that ends a fan-out leaves the
\* message exactly once in every registered sink.
C21_FanOut ==
  /\ [](\A t \in Dispatchers : InFanout(t) =>
          /\ mtx_ = t
          /\ \A i \in 1..Len(sinks_) :
               i < idx[t] <=> Has(out[sinks_[i]], msg[t].src, msg[t].seq))
  /\ [][/\ sinks_' # sinks_ =>
             /\ \E s \in SinkIds : sinks_' = Append(sinks_, s)
             /\ \A t \in Dispatchers : ~InFanout(t)
        /\ \A t \in Dispatchers :
             (InFanout(t) /\ ~InFanout(t)') =>
               \A s \in Registered : CountIn(out'[s], msg[t].src, msg[t].seq) = 1]_vars

\* C21's case: the file sink was registered first and holds a message
\* dispatched before the console sink was added, and a later message is in
\* both.
C21_Witness ==
  /\ sinks_ = <<2, 1>>
  /\ Len(out[2]) = 2
  /\ Len(out[1]) = 1
  /\ mtx_ = Free

Holds(t) == mtx_ = t \/ qmtx = t \/ \E s \in SinkIds : smtx[s] = t

\* C22: a sink mutex is held only by the thread that holds the Logger mutex;
\* the thread holding the queue mutex holds no other mutex and is inside push,
\* pop or close, not in a sink; and a thread that holds a mutex can always
\* take its next step, so no thread waits for a mutex for ever.
C22_NoDeadlock ==
  /\ \A s \in SinkIds : smtx[s] # Free => mtx_ = smtx[s]
  /\ qmtx # Free =>
       /\ mtx_ # qmtx
       /\ \A s \in SinkIds : smtx[s] # qmtx
       /\ pc[qmtx] \in {"push", "pop", "d_close"}
  /\ \A p \in Producers : Holds(p) => ENABLED ProducerStep(p)
  /\ Holds(Worker) => ENABLED WorkerStep
  /\ Holds(Main) => ENABLED TeardownStep

\* C22's case: the worker writes the file sink under both of its locks while
\* the caller waits for the Logger mutex and teardown holds the queue mutex.
C22_Witness ==
  /\ mtx_ = Worker /\ smtx[2] = Worker
  /\ pc[Caller] = "disp_lock"
  /\ qmtx = Main

\* ~Logger has called q_.close() (or is past it).
CloseRequested == pc[Main] \in {"d_close_lock", "d_close", "d_join", "done"}

\* C23: once teardown has requested the close, running_ is false, so a log()
\* call that starts from then on takes the synchronous path and never the
\* queue; while it dispatches it is never stuck (it can step, or the holder of
\* the Logger mutex can); when it has returned its message is in every
\* registered sink; and no message, queued after the close or not, is ever in
\* a sink or in the queue more than once.
C23_LogAfterClose ==
  /\ [](CloseRequested => ~running_)
  /\ [][\A p \in Producers :
          (CloseRequested /\ pc[p] = "check" /\ pc'[p] # "check") =>
            pc'[p] = "disp_lock"]_vars
  /\ [](\A p \in Producers :
          (CloseRequested /\ pc[p] \in InDispatch) =>
            \/ ENABLED ProducerStep(p)
            \/ mtx_ = Worker /\ ENABLED WorkerStep
            \/ \E r \in Producers \ {p} : mtx_ = r /\ ENABLED ProducerStep(r))
  /\ [](\A p \in Producers : \A k \in 1..Len(hist[p]) :
          /\ CountIn(q_, p, k) <= 1
          /\ \A s \in SinkIds : CountIn(out[s], p, k) <= 1
          /\ (hist[p][k] = "sync" /\ (k < Len(hist[p]) \/ pc[p] = "idle")) =>
               \A s \in Registered : CountIn(out[s], p, k) = 1)

\* C23's case: a thread's first message was pushed onto the closed queue and
\* stays there; its second call, begun after that, has returned with its
\* message in both sinks.
C23_Witness ==
  \E p \in Producers :
    /\ hist[p] = <<"closed", "sync">>
    /\ pc[p] = "idle"
    /\ Has(q_, p, 1)
    /\ \A s \in Registered : CountIn(out[s], p, 2) = 1
    /\ pc[Worker] = "exited"
====
